---- MODULE Spec2Model ----
(***************************************************************************)
(* The parallel round-based CREATE2 salt search of search-create2.          *)
(*                                                                         *)
(* Two variants of the engine live in the repository and both are          *)
(* modelled here, selected by the variable `variant`:                      *)
(*   "searcher" : struct Searcher of src/src/search.rs                     *)
(*   "main"     : the free functions of src/src/main.rs                    *)
(*                                                                         *)
(* A rayon pool worker is a process with a program counter; the three      *)
(* std::sync::Mutex values are owner variables (0 = unlocked).             *)
(***************************************************************************)
EXTENDS Integers, Sequences, FiniteSets, TLC

(***************************************************************************)
(* Bounds of the model.                                                    *)
(***************************************************************************)
MaxThreads == 2        \* largest num_threads of the pool
MaxNumRounds == 2      \* largest num_rounds of a call
MaxRoundSize == 2      \* largest round_size / limit of a call
MaxInitialSalt == 1    \* largest initial_salt_n of a call
MaxCalls == 2          \* search calls made on one Searcher
AddrNibbles == 2       \* hex digits of a modelled address (H160 has 40)
U128Bits == 18         \* modelled width of u128 (wrap-around of round_size - 1,
                       \* overflow of 16^zeros, saturation of `as u128`)
MaxZeros == 5          \* largest `zeros` handed to fmt_countdown

(***************************************************************************)
(* Program constants.                                                      *)
(***************************************************************************)
LogPeriod == 100       \* `*total_rounds % 100 == 0`
SaltBytes == 32        \* `[0u8; 32]`

VARIABLES
    variant,               \* which engine runs: "searcher" or "main"
    overflow_checks,       \* build profile, "unobserved" until an overflow shows it:
                           \* "on" = overflowing arithmetic panics, "off" = it wraps
    num_threads,           \* size of the rayon pool
    params,                \* SearchParams of the current call
    best,                  \* Option<AddressSalt>: <<>> is None, <<c>> is Some(c)
    total_attempts,        \* the u128 behind the total_attempts mutex
    total_rounds,          \* the u128 behind the total_rounds mutex
    mutex_best,            \* owner of the best mutex, 0 when unlocked
    mutex_total_rounds,    \* owner of the total_rounds mutex
    mutex_total_attempts,  \* owner of the total_attempts mutex
    pending,               \* round indices of the par_iter not yet started
    worker,                \* per pool thread: position and locals
    main_pc,               \* position of the calling thread
    calls,                 \* number of search calls started
    result,                \* what the last search call returned (Option)
    folds,                 \* per round index: folds done in this call
    hashes,                \* derivations evaluated in this call
    panicked,              \* a round closure of this call has panicked
    last_notes,            \* notifications printed by the latest fold
    eta                    \* one fmt_countdown call: its arguments and its output

vars == << variant, overflow_checks, num_threads, params, best, total_attempts,
           total_rounds, mutex_best, mutex_total_rounds, mutex_total_attempts,
           pending, worker, main_pc, calls, result, folds, hashes, panicked,
           last_notes, eta >>

Workers == 1..MaxThreads
Deployers == {0, 1}
InitCodeHashes == {0}

(***************************************************************************)
(* utils.rs                                                                *)
(***************************************************************************)

\* Byte k (counted from the least significant end) of n.  Model values are
\* below 2^31, so bytes 4.. are zero.
ByteAt(n, k) == IF k >= 4 THEN 0 ELSE (n \div (256 ^ k)) % 256

\* bytes32: the 32-byte big-endian encoding of a U256.
bytes32(n) == [i \in 1..SaltBytes |-> ByteAt(n, SaltBytes - i)]

\* The hex digits of an address, most significant first ("{:?}" without "0x").
HexDigits(address) ==
    [i \in 1..AddrNibbles |-> (address \div (16 ^ (AddrNibbles - i))) % 16]

RECURSIVE LeadingZeroDigits(_)
LeadingZeroDigits(digits) ==
    IF digits = << >> THEN 0
    ELSE IF Head(digits) = 0 THEN 1 + LeadingZeroDigits(Tail(digits))
    ELSE 0

\* count_leading_zeroes: leading '0' characters of the formatted address.
count_leading_zeroes(address) == LeadingZeroDigits(HexDigits(address))

(***************************************************************************)
(* Address derivation.  get_create2_address_from_hash is keccak256 of      *)
(* 0xff ++ deployer ++ salt ++ init_code_hash, cut to 20 bytes.  The model *)
(* keeps its shape (a fixed function of the three byte strings, with       *)
(* collisions) over a small table of addresses.                            *)
(***************************************************************************)
AddressTable == << 42, 19, 5, 19, 5, 5, 0, 65, 12 >>

RECURSIVE Digest(_, _)
Digest(bytes, acc) ==
    IF bytes = << >> THEN acc
    ELSE Digest(Tail(bytes), (acc * 256 + Head(bytes)) % 251)

get_create2_address_from_hash(deployer, salt, init_code_hash_bytes) ==
    AddressTable[((3 * deployer + Digest(salt, 0) + Digest(init_code_hash_bytes, 0))
                  % Len(AddressTable)) + 1]

\* No scan of the model goes beyond this salt.
MaxSalt == MaxInitialSalt + (MaxNumRounds + 1) * (MaxRoundSize + 2)

\* get_create2_address_from_hash(deployer, bytes32(salt_n), init_code_hash),
\* tabulated once for the inputs of the model.
DerivedAddress ==
    [d \in Deployers, h \in InitCodeHashes, salt_n \in 0..MaxSalt |->
        get_create2_address_from_hash(d, bytes32(salt_n), bytes32(h))]

\* The address of a salt number under the parameters p.
Derive(p, salt_n) == DerivedAddress[p.deployer, p.init_code_hash, salt_n]

(***************************************************************************)
(* Records.                                                                *)
(***************************************************************************)
AddressSalt(address, salt_n) == [address |-> address, salt_n |-> salt_n]

SearchParams(deployer, initial_salt_n, init_code_hash, round_size, num_rounds) ==
    [deployer |-> deployer, initial_salt_n |-> initial_salt_n,
     init_code_hash |-> init_code_hash, round_size |-> round_size,
     num_rounds |-> num_rounds]

ParamSet ==
    { SearchParams(d, s, h, rs, nr) :
        d \in Deployers, s \in 0..MaxInitialSalt, h \in InitCodeHashes,
        rs \in 0..MaxRoundSize, nr \in 0..MaxNumRounds }

NoParams == SearchParams(0, 0, 0, 0, 0)

IdleWorker ==
    [pc |-> "idle", round |-> 0, round_salt_n |-> 0, salt_n |-> 0, i |-> 0,
     n |-> 0, round_best |-> AddressSalt(0, 0), visited |-> << >>]

(***************************************************************************)
(* u128 arithmetic of `*round_size - 1`.                                   *)
(***************************************************************************)
U128Modulus == 2 ^ U128Bits

\* a - b underflows.
SubOverflows(a, b) == a < b

\* a - b as the build without overflow checks computes it.
WrappingSub(a, b) == (a - b + U128Modulus) % U128Modulus

\* The scan loop is cut after this many iterations (only a wrapped-around
\* range is longer).
ScanCap == MaxRoundSize + 2

(***************************************************************************)
(* Searcher::search_round and Searcher::search_create2_addresses.          *)
(***************************************************************************)

\* Mutant: the round index is not scaled by round_size.
RoundSaltUnscaled(p, round) == p.initial_salt_n + round

\* round_salt_n = initial_salt_n + round_size * round
RoundSalt(p, round) == p.initial_salt_n + p.round_size * round

\* The params handed to search_create2_addresses for a round.
RoundParams(p, round) ==
    SearchParams(p.deployer, RoundSalt(p, round), p.init_code_hash,
                 p.round_size, p.num_rounds)

\* Locals of search_create2_addresses before its loop: one address is derived.
ScanFirst(rp) ==
    [salt_n |-> rp.initial_salt_n,
     best |-> AddressSalt(Derive(rp, rp.initial_salt_n), rp.initial_salt_n)]

\* Mutant: the loop runs round_size times after the first derivation.
ScanRangeOffByOne(rp) == rp.round_size

\* Number of iterations of `for _i in 0..*round_size - 1`.
ScanRange(rp) == WrappingSub(rp.round_size, 1)

\* Mutant: the loop also takes a later salt with an equal address.
ScanBodyNotLarger(rp, salt_n, round_best) ==
    LET next_salt == salt_n + 1
        address == Derive(rp, next_salt)
    IN  [salt_n |-> next_salt,
         best |-> IF address <= round_best.address
                  THEN AddressSalt(address, next_salt)
                  ELSE round_best]

\* One iteration of the loop on the locals (salt_n, best).
ScanBody(rp, salt_n, round_best) ==
    LET next_salt == salt_n + 1
        address == Derive(rp, next_salt)
    IN  [salt_n |-> next_salt,
         best |-> IF address < round_best.address
                  THEN AddressSalt(address, next_salt)
                  ELSE round_best]

\* The whole loop of search_create2_addresses, run to its end.
RECURSIVE ScanLoop(_, _, _, _)
ScanLoop(rp, salt_n, round_best, left) ==
    IF left = 0 THEN round_best
    ELSE LET next == ScanBody(rp, salt_n, round_best)
         IN  ScanLoop(rp, next.salt_n, next.best, left - 1)

\* What search_create2_addresses returns.
SearchCreate2Addresses(rp) ==
    LET first == ScanFirst(rp)
    IN  ScanLoop(rp, first.salt_n, first.best, ScanRange(rp))

\* Mutant: every folded round replaces best.
ShouldReplaceAlways(b, round_best) == TRUE

\* Mutant: the comparison is turned around.
ShouldReplaceLarger(b, round_best) == b = << >> \/ round_best.address > b[1].address

\* Mutant: a candidate with an equal address replaces best too.
ShouldReplaceNotLarger(b, round_best) ==
    b = << >> \/ round_best.address <= b[1].address

\* `best_mutex.is_none() || round_best.address < best_mutex.unwrap().address`
ShouldReplace(b, round_best) == b = << >> \/ round_best.address < b[1].address

\* Mutant: best is only ever set once.
FoldBestFirstOnly(b, round_best) == IF b = << >> THEN << round_best >> ELSE b

\* `*best_mutex = Some(round_best)` when the test above holds.
FoldBest(b, round_best) == IF ShouldReplace(b, round_best) THEN << round_best >> ELSE b

\* Mutant: the fold counts one attempt per round.
AddAttemptsOne(attempts, round_size) == attempts + 1

\* `*total_attempts += round_size`
AddAttempts(attempts, round_size) == attempts + round_size

\* Mutant: the period is tested on total_rounds as it was before the increment.
IsPeriodicBeforeIncrement(rounds) == (rounds - 1) % LogPeriod = 0

\* `*total_rounds % 100 == 0`
IsPeriodic(rounds) == rounds % LogPeriod = 0

\* Values of now.elapsed().as_millis() the model draws from.
ElapsedMs == {0, 1000}

\* log_attempts: nothing when elapsed_ms == 0, else one progress line.
log_attempts(round, attempt, elapsed_ms, best_zeros) ==
    IF elapsed_ms = 0 THEN << >>
    ELSE << [round |-> round, attempt |-> attempt, elapsed_ms |-> elapsed_ms,
             zeros |-> best_zeros + 1] >>

\* elapsed_ms is the clock reading the latest fold took.
NoNotes == [improvement |-> FALSE, periodic |-> FALSE, progress |-> << >>,
            elapsed_ms |-> 0]

\* No fmt_countdown call is being followed.
NoEta == [zeros |-> 0, rate |-> << >>, elapsed_ms |-> 0, out |-> << >>]

(***************************************************************************)
(* fmt_countdown and fmt_dms.  An f64 is modelled as the exact fraction    *)
(* << numerator, denominator >> with a positive denominator; the rounding  *)
(* of f64 arithmetic is not modelled.                                      *)
(***************************************************************************)

\* `16_u128.pow(zeros as u32)` overflows u128.
PowOverflows(base, exp) == base ^ exp >= U128Modulus

\* The value of the power without overflow checks.
WrappingPow(base, exp) == (base ^ exp) % U128Modulus

\* `x as u128` for the f64 x = num / den: truncated, negative values become 0
\* and values above u128::MAX become u128::MAX.
F64AsU128(num, den) ==
    IF num < 0 THEN 0
    ELSE IF num \div den >= U128Modulus THEN U128Modulus - 1
    ELSE num \div den

\* Mutant: the hours are not reduced modulo a day.
fmt_dms_hours_of_total(seconds) ==
    [days |-> seconds \div 86400,
     hours |-> seconds \div 3600,
     minutes |-> (seconds % 3600) \div 60,
     seconds |-> seconds % 60]

\* utils::fmt_dms: the four numbers of "{}d{}h{}m{}s".
fmt_dms(seconds) ==
    [days |-> seconds \div 86400,
     hours |-> (seconds % 86400) \div 3600,
     minutes |-> (seconds % 3600) \div 60,
     seconds |-> seconds % 60]

\* Searcher::fmt_countdown when the power does not panic: the numbers of
\* " ({} 0s T-{})".
fmt_countdown(zeros, rate, elapsed_ms) ==
    LET expected_attempts == WrappingPow(16, zeros)
        \* expected_attempts as f64 / rate
        secs_num == expected_attempts * rate[2]
        secs_den == rate[1]
        \* ... - (elapsed_ms as f64 / 1000.0)
        remaining_num == secs_num * 1000 - elapsed_ms * secs_den
        remaining_den == secs_den * 1000
        expected_remaining_time_at_rate == F64AsU128(remaining_num, remaining_den)
    IN  [panic |-> FALSE, zeros |-> zeros,
         dms |-> fmt_dms(expected_remaining_time_at_rate)]

\* The call ended in the overflow panic of the power.
EtaPanic == [panic |-> TRUE, zeros |-> 0, dms |-> fmt_dms(0)]

\* Arguments the calls of fmt_countdown are drawn from; the rates are positive.
EtaZeros == 0..MaxZeros
EtaRates == { << 1, 30 >>, << 1, 7 >>, << 1, 1 >>, << 3, 1 >>, << 1000, 1 >> }
EtaElapsedMs == {0, 1, 1000, 2500, 60000}

\* Mutex::lock returns only when the mutex is unlocked.
CanLock(owner) == owner = 0

Active(w) == w <= num_threads

AllIdle == \A w \in Workers : worker[w].pc = "idle"

\* The build profiles an overflowing subtraction can still turn out to run under.
OverflowProfiles ==
    IF overflow_checks = "unobserved" THEN {"on", "off"} ELSE {overflow_checks}

\* Searcher::search up to the dispatch of the parallel iterator.
Search(p) ==
    /\ variant = "searcher"
    /\ main_pc = "new"
    /\ params' = p
    /\ pending' = 0..(p.num_rounds - 1)
    /\ folds' = [r \in 0..(p.num_rounds - 1) |-> 0]
    /\ hashes' = 0
    /\ panicked' = FALSE
    /\ result' = << >>
    /\ last_notes' = NoNotes
    /\ calls' = calls + 1
    /\ main_pc' = "running"
    /\ UNCHANGED << eta, variant, overflow_checks, num_threads, best, total_attempts,
                    total_rounds, mutex_best, mutex_total_rounds,
                    mutex_total_attempts, worker >>

\* A further Searcher::search call on the same Searcher, after one returned.
SearchAgain(p) ==
    /\ variant = "searcher"
    /\ main_pc = "returned"
    /\ calls < MaxCalls
    /\ params' = p
    /\ pending' = 0..(p.num_rounds - 1)
    /\ folds' = [r \in 0..(p.num_rounds - 1) |-> 0]
    /\ hashes' = 0
    /\ panicked' = FALSE
    /\ result' = << >>
    /\ last_notes' = NoNotes
    /\ calls' = calls + 1
    /\ main_pc' = "running"
    /\ UNCHANGED << eta, variant, overflow_checks, num_threads, best, total_attempts,
                    total_rounds, mutex_best, mutex_total_rounds,
                    mutex_total_attempts, worker >>

\* Mutant: search_round takes the best mutex before it scans.
StartRoundLocked(w, r) ==
    /\ variant = "searcher"
    /\ main_pc = "running"
    /\ Active(w)
    /\ worker[w].pc = "idle"
    /\ r \in pending
    /\ CanLock(mutex_best)
    /\ mutex_best' = w
    /\ pending' = pending \ {r}
    /\ hashes' = hashes + 1
    /\ LET rp == RoundParams(params, r)
           first == ScanFirst(rp)
       IN  /\ ~SubOverflows(rp.round_size, 1)
           /\ worker' = [worker EXCEPT ![w] =
                 [pc |-> IF ScanRange(rp) = 0 THEN "lock_best" ELSE "scan",
                  round |-> r,
                  round_salt_n |-> rp.initial_salt_n,
                  salt_n |-> first.salt_n,
                  i |-> 0,
                  n |-> ScanRange(rp),
                  round_best |-> first.best,
                  visited |-> << first.salt_n >>]]
    /\ UNCHANGED << eta, variant, overflow_checks, num_threads, params, best,
                    total_attempts, total_rounds, mutex_total_rounds,
                    mutex_total_attempts, main_pc, calls, result, folds,
                    panicked, last_notes >>

\* search_round from its entry to the head of the scan loop.
StartRound(w, r) ==
    /\ variant = "searcher"
    /\ main_pc = "running"
    /\ Active(w)
    /\ worker[w].pc = "idle"
    /\ r \in pending
    /\ pending' = pending \ {r}
    /\ hashes' = hashes + 1
    /\ LET rp == RoundParams(params, r)
           first == ScanFirst(rp)
       IN  \E profile \in (IF SubOverflows(rp.round_size, 1)
                             THEN OverflowProfiles ELSE {overflow_checks}) :
           /\ overflow_checks' = profile
           /\ IF SubOverflows(rp.round_size, 1) /\ profile = "on"
              THEN /\ panicked' = TRUE
                   /\ worker' = [worker EXCEPT ![w] = IdleWorker]
              ELSE /\ panicked' = panicked
                   /\ worker' = [worker EXCEPT ![w] =
                         [pc |-> IF ScanRange(rp) = 0 THEN "lock_best" ELSE "scan",
                          round |-> r,
                          round_salt_n |-> rp.initial_salt_n,
                          salt_n |-> first.salt_n,
                          i |-> 0,
                          n |-> ScanRange(rp),
                          round_best |-> first.best,
                          visited |-> << first.salt_n >>]]
    /\ UNCHANGED << eta, variant, num_threads, params, best,
                    total_attempts, total_rounds, mutex_best, mutex_total_rounds,
                    mutex_total_attempts, main_pc, calls, result, folds,
                    last_notes >>

\* One iteration of the loop of search_create2_addresses.
ScanStep(w) ==
    /\ variant = "searcher"
    /\ worker[w].pc = "scan"
    /\ worker[w].i < worker[w].n
    /\ worker[w].i < ScanCap
    /\ LET rp == RoundParams(params, worker[w].round)
           next == ScanBody(rp, worker[w].salt_n, worker[w].round_best)
       IN  worker' = [worker EXCEPT ![w] =
              [@ EXCEPT !.salt_n = next.salt_n,
                        !.round_best = next.best,
                        !.i = @ + 1,
                        !.visited = Append(@, next.salt_n),
                        !.pc = IF worker[w].i + 1 = worker[w].n
                               THEN "lock_best" ELSE "scan"]]
    /\ hashes' = hashes + 1
    /\ UNCHANGED << eta, variant, overflow_checks, num_threads, params, best,
                    total_attempts, total_rounds, mutex_best, mutex_total_rounds,
                    mutex_total_attempts, pending, main_pc, calls, result, folds,
                    panicked, last_notes >>

\* Mutant: the fold goes on without waiting for the best mutex.
LockBestNoWait(w) ==
    /\ variant = "searcher"
    /\ worker[w].pc = "lock_best"
    /\ mutex_best' = w
    /\ worker' = [worker EXCEPT ![w].pc = "lock_total_rounds"]
    /\ UNCHANGED << eta, variant, overflow_checks, num_threads, params, best,
                    total_attempts, total_rounds, mutex_total_rounds,
                    mutex_total_attempts, pending, main_pc, calls, result, folds,
                    hashes, panicked, last_notes >>

\* `let mut best_mutex = self.best.lock().unwrap();`
LockBest(w) ==
    /\ variant = "searcher"
    /\ worker[w].pc = "lock_best"
    /\ CanLock(mutex_best)
    /\ mutex_best' = w
    /\ worker' = [worker EXCEPT ![w].pc = "lock_total_rounds"]
    /\ UNCHANGED << eta, variant, overflow_checks, num_threads, params, best,
                    total_attempts, total_rounds, mutex_total_rounds,
                    mutex_total_attempts, pending, main_pc, calls, result, folds,
                    hashes, panicked, last_notes >>

\* Mutant: `*self.total_rounds.lock().unwrap() += 1;`, whose guard is a
\* temporary that unlocks at the end of the statement.
LockTotalRoundsTemporary(w) ==
    /\ variant = "searcher"
    /\ worker[w].pc = "lock_total_rounds"
    /\ CanLock(mutex_total_rounds)
    /\ total_rounds' = total_rounds + 1
    /\ worker' = [worker EXCEPT ![w].pc = "lock_total_attempts"]
    /\ UNCHANGED << eta, variant, overflow_checks, num_threads, params, best,
                    total_attempts, mutex_best, mutex_total_rounds,
                    mutex_total_attempts, pending, main_pc, calls, result, folds,
                    hashes, panicked, last_notes >>

\* `let mut total_rounds = self.total_rounds.lock().unwrap(); *total_rounds += 1;`
LockTotalRounds(w) ==
    /\ variant = "searcher"
    /\ worker[w].pc = "lock_total_rounds"
    /\ CanLock(mutex_total_rounds)
    /\ mutex_total_rounds' = w
    /\ total_rounds' = total_rounds + 1
    /\ worker' = [worker EXCEPT ![w].pc = "lock_total_attempts"]
    /\ UNCHANGED << eta, variant, overflow_checks, num_threads, params, best,
                    total_attempts, mutex_best, mutex_total_attempts, pending,
                    main_pc, calls, result, folds, hashes, panicked, last_notes >>

\* `let mut total_attempts = self.total_attempts.lock().unwrap();
\*  *total_attempts += round_size;`
LockTotalAttempts(w) ==
    /\ variant = "searcher"
    /\ worker[w].pc = "lock_total_attempts"
    /\ CanLock(mutex_total_attempts)
    /\ mutex_total_attempts' = w
    /\ total_attempts' = AddAttempts(total_attempts, params.round_size)
    /\ worker' = [worker EXCEPT ![w].pc = "update"]
    /\ UNCHANGED << eta, variant, overflow_checks, num_threads, params, best,
                    total_rounds, mutex_best, mutex_total_rounds, pending,
                    main_pc, calls, result, folds, hashes, panicked, last_notes >>

\* Mutant: the guard of the best mutex is leaked at the end of search_round.
FoldFinishKeepsBest(w) ==
    /\ variant = "searcher"
    /\ worker[w].pc = "update"
    /\ \E elapsed_ms \in ElapsedMs :
         LET round_best == worker[w].round_best
             replace == ShouldReplace(best, round_best)
             new_best == FoldBest(best, round_best)
         IN  /\ best' = new_best
             /\ last_notes' =
                  [improvement |-> replace,
                   periodic |-> ~replace /\ IsPeriodic(total_rounds),
                   progress |-> log_attempts(total_rounds, total_attempts, elapsed_ms,
                                             count_leading_zeroes(new_best[1].address)),
                   elapsed_ms |-> elapsed_ms]
    /\ folds' = [folds EXCEPT ![worker[w].round] = @ + 1]
    /\ mutex_total_rounds' = 0
    /\ mutex_total_attempts' = 0
    /\ worker' = [worker EXCEPT ![w] = IdleWorker]
    /\ UNCHANGED << eta, variant, overflow_checks, num_threads, params, total_attempts,
                    total_rounds, pending, main_pc, calls, result, hashes,
                    panicked, mutex_best >>

\* The rest of search_round: update best, log, return (the guards drop).
FoldFinish(w) ==
    /\ variant = "searcher"
    /\ worker[w].pc = "update"
    /\ \E elapsed_ms \in ElapsedMs :
         LET round_best == worker[w].round_best
             replace == ShouldReplace(best, round_best)
             new_best == FoldBest(best, round_best)
         IN  /\ best' = new_best
             /\ last_notes' =
                  [improvement |-> replace,
                   periodic |-> ~replace /\ IsPeriodic(total_rounds),
                   progress |-> log_attempts(total_rounds, total_attempts, elapsed_ms,
                                             count_leading_zeroes(new_best[1].address)),
                   elapsed_ms |-> elapsed_ms]
    /\ folds' = [folds EXCEPT ![worker[w].round] = @ + 1]
    /\ mutex_best' = 0
    /\ mutex_total_rounds' = 0
    /\ mutex_total_attempts' = 0
    /\ worker' = [worker EXCEPT ![w] = IdleWorker]
    /\ UNCHANGED << eta, variant, overflow_checks, num_threads, params, total_attempts,
                    total_rounds, pending, main_pc, calls, result, hashes,
                    panicked >>

\* Mutant: search does not wait for the rounds that are still running.
SearchReturnEarly ==
    /\ variant = "searcher"
    /\ main_pc = "running"
    /\ pending = {}
    /\ ~panicked
    /\ CanLock(mutex_best)
    /\ IF best = << >>
       THEN main_pc' = "panicked" /\ result' = << >>
       ELSE main_pc' = "returned" /\ result' = best
    /\ UNCHANGED << eta, variant, overflow_checks, num_threads, params, best,
                    total_attempts, total_rounds, mutex_best, mutex_total_rounds,
                    mutex_total_attempts, pending, worker, calls, folds, hashes,
                    panicked, last_notes >>

\* Mutant: an empty best is returned as a default candidate instead of panicking.
SearchReturnDefault ==
    /\ variant = "searcher"
    /\ main_pc = "running"
    /\ pending = {}
    /\ AllIdle
    /\ ~panicked
    /\ CanLock(mutex_best)
    /\ main_pc' = "returned"
    /\ result' = IF best = << >> THEN << AddressSalt(0, 0) >> ELSE best
    /\ UNCHANGED << eta, variant, overflow_checks, num_threads, params, best,
                    total_attempts, total_rounds, mutex_best, mutex_total_rounds,
                    mutex_total_attempts, pending, worker, calls, folds, hashes,
                    panicked, last_notes >>

\* install returns once every round closure has run; then
\* `let the_best = self.best.lock().unwrap(); return the_best.unwrap();`
SearchReturn ==
    /\ variant = "searcher"
    /\ main_pc = "running"
    /\ pending = {}
    /\ AllIdle
    /\ ~panicked
    /\ CanLock(mutex_best)
    /\ IF best = << >>
       THEN main_pc' = "panicked" /\ result' = << >>
       ELSE main_pc' = "returned" /\ result' = best
    /\ UNCHANGED << eta, variant, overflow_checks, num_threads, params, best,
                    total_attempts, total_rounds, mutex_best, mutex_total_rounds,
                    mutex_total_attempts, pending, worker, calls, folds, hashes,
                    panicked, last_notes >>

\* A panic of a round closure is resumed in the caller of install once the
\* running closures have ended; rounds not yet started may be skipped.
SearchPanic ==
    /\ variant = "searcher"
    /\ main_pc = "running"
    /\ panicked
    /\ AllIdle
    /\ main_pc' = "panicked"
    /\ pending' = {}
    /\ UNCHANGED << eta, variant, overflow_checks, num_threads, params, best,
                    total_attempts, total_rounds, mutex_best, mutex_total_rounds,
                    mutex_total_attempts, worker, calls, result, folds, hashes,
                    panicked, last_notes >>

(***************************************************************************)
(* main.rs: search_create2_addresses, search_round, search, main.          *)
(***************************************************************************)

\* round_salt_n = initial_salt_n + limit * round
MainRoundSalt(p, round) == p.initial_salt_n + p.round_size * round

MainRoundParams(p, round) ==
    SearchParams(p.deployer, MainRoundSalt(p, round), p.init_code_hash,
                 p.round_size, p.num_rounds)

\* Locals of main.rs search_create2_addresses before its loop.
MainScanFirst(rp) ==
    [salt_n |-> rp.initial_salt_n,
     best |-> AddressSalt(Derive(rp, rp.initial_salt_n), rp.initial_salt_n)]

\* Number of iterations of `for _i in 0..*limit`.
MainScanRange(rp) == rp.round_size

\* One iteration of the loop of main.rs search_create2_addresses.
MainScanBody(rp, salt_n, round_best) ==
    LET next_salt == salt_n + 1
        address == Derive(rp, next_salt)
    IN  [salt_n |-> next_salt,
         best |-> IF address < round_best.address
                  THEN AddressSalt(address, next_salt)
                  ELSE round_best]

\* The whole of main.rs search_create2_addresses, run on one thread.
RECURSIVE MainScanLoop(_, _, _, _)
MainScanLoop(rp, salt_n, round_best, left) ==
    IF left = 0 THEN round_best
    ELSE LET next == MainScanBody(rp, salt_n, round_best)
         IN  MainScanLoop(rp, next.salt_n, next.best, left - 1)

MainSearchCreate2Addresses(rp) ==
    LET first == MainScanFirst(rp)
    IN  MainScanLoop(rp, first.salt_n, first.best, MainScanRange(rp))

\* `round_best.address < the_best.address`
MainShouldReplace(b, round_best) == round_best.address < b[1].address

\* main from the first scan to the dispatch of the rounds inside search.
MainBootstrap(p) ==
    /\ variant = "main"
    /\ main_pc = "new"
    /\ params' = p
    /\ best' = << MainSearchCreate2Addresses(p) >>
    /\ total_attempts' = 1
    /\ total_rounds' = 0
    /\ pending' = 0..(p.num_rounds - 1)
    /\ folds' = [r \in 0..(p.num_rounds - 1) |-> 0]
    /\ hashes' = MainScanRange(p) + 1
    /\ calls' = calls + 1
    /\ main_pc' = "running"
    /\ UNCHANGED << eta, variant, overflow_checks, num_threads, mutex_best,
                    mutex_total_rounds, mutex_total_attempts, worker, result,
                    panicked, last_notes >>

\* main.rs search_round from its entry to the head of the scan loop.
MainStartRound(w, r) ==
    /\ variant = "main"
    /\ main_pc = "running"
    /\ Active(w)
    /\ worker[w].pc = "idle"
    /\ r \in pending
    /\ pending' = pending \ {r}
    /\ hashes' = hashes + 1
    /\ LET rp == MainRoundParams(params, r)
           first == MainScanFirst(rp)
       IN  worker' = [worker EXCEPT ![w] =
              [pc |-> IF MainScanRange(rp) = 0 THEN "lock_best" ELSE "scan",
               round |-> r,
               round_salt_n |-> rp.initial_salt_n,
               salt_n |-> first.salt_n,
               i |-> 0,
               n |-> MainScanRange(rp),
               round_best |-> first.best,
               visited |-> << first.salt_n >>]]
    /\ UNCHANGED << eta, variant, overflow_checks, num_threads, params, best,
                    total_attempts, total_rounds, mutex_best, mutex_total_rounds,
                    mutex_total_attempts, main_pc, calls, result, folds, panicked,
                    last_notes >>

\* One iteration of the loop of main.rs search_create2_addresses.
MainScanStep(w) ==
    /\ variant = "main"
    /\ worker[w].pc = "scan"
    /\ worker[w].i < worker[w].n
    /\ LET rp == MainRoundParams(params, worker[w].round)
           next == MainScanBody(rp, worker[w].salt_n, worker[w].round_best)
       IN  worker' = [worker EXCEPT ![w] =
              [@ EXCEPT !.salt_n = next.salt_n,
                        !.round_best = next.best,
                        !.i = @ + 1,
                        !.visited = Append(@, next.salt_n),
                        !.pc = IF worker[w].i + 1 = worker[w].n
                               THEN "lock_best" ELSE "scan"]]
    /\ hashes' = hashes + 1
    /\ UNCHANGED << eta, variant, overflow_checks, num_threads, params, best,
                    total_attempts, total_rounds, mutex_best, mutex_total_rounds,
                    mutex_total_attempts, pending, main_pc, calls, result, folds,
                    panicked, last_notes >>

\* `let mut the_best = global_best.lock().unwrap();`
MainLockBest(w) ==
    /\ variant = "main"
    /\ worker[w].pc = "lock_best"
    /\ CanLock(mutex_best)
    /\ mutex_best' = w
    /\ worker' = [worker EXCEPT ![w].pc = "lock_total_rounds"]
    /\ UNCHANGED << eta, variant, overflow_checks, num_threads, params, best,
                    total_attempts, total_rounds, mutex_total_rounds,
                    mutex_total_attempts, pending, main_pc, calls, result, folds,
                    hashes, panicked, last_notes >>

\* `let mut total_rounds = total_rounds.lock().unwrap(); *total_rounds += 1;`
MainLockTotalRounds(w) ==
    /\ variant = "main"
    /\ worker[w].pc = "lock_total_rounds"
    /\ CanLock(mutex_total_rounds)
    /\ mutex_total_rounds' = w
    /\ total_rounds' = total_rounds + 1
    /\ worker' = [worker EXCEPT ![w].pc = "lock_total_attempts"]
    /\ UNCHANGED << eta, variant, overflow_checks, num_threads, params, best,
                    total_attempts, mutex_best, mutex_total_attempts, pending,
                    main_pc, calls, result, folds, hashes, panicked, last_notes >>

\* `let mut total_attempts = total_attempts.lock().unwrap();
\*  *total_attempts += round_size;`
MainLockTotalAttempts(w) ==
    /\ variant = "main"
    /\ worker[w].pc = "lock_total_attempts"
    /\ CanLock(mutex_total_attempts)
    /\ mutex_total_attempts' = w
    /\ total_attempts' = total_attempts + params.round_size
    /\ worker' = [worker EXCEPT ![w].pc = "update"]
    /\ UNCHANGED << eta, variant, overflow_checks, num_threads, params, best,
                    total_rounds, mutex_best, mutex_total_rounds, pending,
                    main_pc, calls, result, folds, hashes, panicked, last_notes >>

\* The rest of main.rs search_round: update best, log, return.
MainFoldFinish(w) ==
    /\ variant = "main"
    /\ worker[w].pc = "update"
    /\ \E elapsed_ms \in ElapsedMs :
         LET round_best == worker[w].round_best
             replace == MainShouldReplace(best, round_best)
             new_best == IF replace THEN << round_best >> ELSE best
         IN  /\ best' = new_best
             /\ last_notes' =
                  [improvement |-> replace,
                   periodic |-> ~replace /\ IsPeriodic(total_rounds),
                   progress |-> log_attempts(total_rounds, total_attempts, elapsed_ms,
                                             count_leading_zeroes(new_best[1].address)),
                   elapsed_ms |-> elapsed_ms]
    /\ folds' = [folds EXCEPT ![worker[w].round] = @ + 1]
    /\ mutex_best' = 0
    /\ mutex_total_rounds' = 0
    /\ mutex_total_attempts' = 0
    /\ worker' = [worker EXCEPT ![w] = IdleWorker]
    /\ UNCHANGED << eta, variant, overflow_checks, num_threads, params, total_attempts,
                    total_rounds, pending, main_pc, calls, result, hashes,
                    panicked >>

\* search returns once every round closure has run; then main prints
\* `mutex_best.lock().unwrap()`.
MainReturn ==
    /\ variant = "main"
    /\ main_pc = "running"
    /\ pending = {}
    /\ AllIdle
    /\ CanLock(mutex_best)
    /\ main_pc' = "returned"
    /\ result' = best
    /\ UNCHANGED << eta, variant, overflow_checks, num_threads, params, best,
                    total_attempts, total_rounds, mutex_best, mutex_total_rounds,
                    mutex_total_attempts, pending, worker, calls, folds, hashes,
                    panicked, last_notes >>

(***************************************************************************)
(* The state after Searcher::new(num_threads), or at the entry of main.    *)
(***************************************************************************)
Init ==
    /\ variant \in {"searcher", "main"}
    /\ overflow_checks = "unobserved"
    /\ num_threads \in 1..MaxThreads
    /\ params = NoParams
    /\ best = << >>
    /\ total_attempts = 0
    /\ total_rounds = 0
    /\ mutex_best = 0
    /\ mutex_total_rounds = 0
    /\ mutex_total_attempts = 0
    /\ pending = {}
    /\ worker = [w \in Workers |-> IdleWorker]
    /\ main_pc = "new"
    /\ calls = 0
    /\ result = << >>
    /\ folds = << >>
    /\ hashes = 0
    /\ panicked = FALSE
    /\ last_notes = NoNotes
    /\ eta = NoEta

Next ==
    \/ \E p \in ParamSet : Search(p)
    \/ \E w \in Workers, r \in 0..MaxNumRounds : StartRound(w, r)
    \/ \E w \in Workers : ScanStep(w)
    \/ \E w \in Workers : LockBest(w)
    \/ \E w \in Workers : LockTotalRounds(w)
    \/ \E w \in Workers : LockTotalAttempts(w)
    \/ \E w \in Workers : FoldFinish(w)
    \/ SearchReturn
    \/ SearchPanic
    \/ \E p \in ParamSet : MainBootstrap(p)
    \/ \E w \in Workers, r \in 0..MaxNumRounds : MainStartRound(w, r)
    \/ \E w \in Workers : MainScanStep(w)
    \/ \E w \in Workers : MainLockBest(w)
    \/ \E w \in Workers : MainLockTotalRounds(w)
    \/ \E w \in Workers : MainLockTotalAttempts(w)
    \/ \E w \in Workers : MainFoldFinish(w)
    \/ MainReturn

\* One search call on a freshly constructed Searcher, or one run of main.
Spec == Init /\ [][Next]_vars

\* A Searcher that is called again after a call returned.
NextReuse == Next \/ \E p \in ParamSet : SearchAgain(p)

SpecReuse == Init /\ [][NextReuse]_vars

\* The pool threads and the caller keep being scheduled: a run does not stop
\* while one of them has a step it can take.
SpecFair == Spec /\ WF_vars(Next)

(***************************************************************************)
(* A long-lived Searcher.  best and the counters are fields of the         *)
(* Searcher and live across calls, so a Searcher can enter a call with     *)
(* total_rounds just below a multiple of the logging period.               *)
(***************************************************************************)

\* Earlier calls on the Searcher: each of them ran PriorParams.
PriorCalls == LogPeriod - 2

PriorParams == SearchParams(0, 0, 0, 1, 1)

\* A Searcher after Searcher::new, or after PriorCalls calls with PriorParams.
InitSearcher ==
    /\ variant = "searcher"
    /\ overflow_checks = "unobserved"
    /\ num_threads \in 1..MaxThreads
    /\ mutex_best = 0
    /\ mutex_total_rounds = 0
    /\ mutex_total_attempts = 0
    /\ pending = {}
    /\ worker = [w \in Workers |-> IdleWorker]
    /\ panicked = FALSE
    /\ last_notes = NoNotes
    /\ eta = NoEta
    /\ \/ /\ params = NoParams
          /\ best = << >>
          /\ total_attempts = 0
          /\ total_rounds = 0
          /\ main_pc = "new"
          /\ calls = 0
          /\ result = << >>
          /\ folds = << >>
          /\ hashes = 0
       \/ /\ params = PriorParams
          /\ best = << SearchCreate2Addresses(RoundParams(PriorParams, 0)) >>
          /\ total_attempts = PriorCalls * PriorParams.round_size
          /\ total_rounds = PriorCalls * PriorParams.num_rounds
          /\ main_pc = "returned"
          /\ calls = PriorCalls
          /\ result = best
          /\ folds = [r \in 0..(PriorParams.num_rounds - 1) |-> 1]
          /\ hashes = PriorParams.num_rounds * PriorParams.round_size

\* The Searcher::search call that follows the PriorCalls earlier ones.
SearchLate(p) ==
    /\ variant = "searcher"
    /\ main_pc = "returned"
    /\ calls = PriorCalls
    /\ params' = p
    /\ pending' = 0..(p.num_rounds - 1)
    /\ folds' = [r \in 0..(p.num_rounds - 1) |-> 0]
    /\ hashes' = 0
    /\ panicked' = FALSE
    /\ result' = << >>
    /\ last_notes' = NoNotes
    /\ calls' = calls + 1
    /\ main_pc' = "running"
    /\ UNCHANGED << eta, variant, overflow_checks, num_threads, best, total_attempts,
                    total_rounds, mutex_best, mutex_total_rounds,
                    mutex_total_attempts, worker >>

NextSearcher ==
    \/ \E p \in ParamSet : Search(p)
    \/ \E p \in ParamSet : SearchLate(p)
    \/ \E w \in Workers, r \in 0..MaxNumRounds : StartRound(w, r)
    \/ \E w \in Workers : ScanStep(w)
    \/ \E w \in Workers : LockBest(w)
    \/ \E w \in Workers : LockTotalRounds(w)
    \/ \E w \in Workers : LockTotalAttempts(w)
    \/ \E w \in Workers : FoldFinish(w)
    \/ SearchReturn
    \/ SearchPanic

SpecSearcher == InitSearcher /\ [][NextSearcher]_vars

(***************************************************************************)
(* fmt_countdown as a function of its arguments.                           *)
(***************************************************************************)

\* One call of fmt_countdown.
FmtCountdown ==
    /\ eta.rate # << >>
    /\ eta.out = << >>
    /\ \E profile \in (IF PowOverflows(16, eta.zeros)
                       THEN OverflowProfiles ELSE {overflow_checks}) :
         /\ overflow_checks' = profile
         /\ eta' = [eta EXCEPT !.out =
                      IF PowOverflows(16, eta.zeros) /\ profile = "on"
                      THEN << EtaPanic >>
                      ELSE << fmt_countdown(eta.zeros, eta.rate, eta.elapsed_ms) >>]
    /\ UNCHANGED << variant, num_threads, params, best, total_attempts,
                    total_rounds, mutex_best, mutex_total_rounds,
                    mutex_total_attempts, pending, worker, main_pc, calls, result,
                    folds, hashes, panicked, last_notes >>

\* A Searcher about to format one countdown.
InitEta ==
    /\ variant = "searcher"
    /\ overflow_checks = "unobserved"
    /\ num_threads = 1
    /\ params = NoParams
    /\ best = << >>
    /\ total_attempts = 0
    /\ total_rounds = 0
    /\ mutex_best = 0
    /\ mutex_total_rounds = 0
    /\ mutex_total_attempts = 0
    /\ pending = {}
    /\ worker = [w \in Workers |-> IdleWorker]
    /\ main_pc = "new"
    /\ calls = 0
    /\ result = << >>
    /\ folds = << >>
    /\ hashes = 0
    /\ panicked = FALSE
    /\ last_notes = NoNotes
    /\ eta \in { [zeros |-> z, rate |-> r, elapsed_ms |-> e, out |-> << >>] :
                   z \in EtaZeros, r \in EtaRates, e \in EtaElapsedMs }

NextEta == FmtCountdown

SpecEta == InitEta /\ [][NextEta]_vars

(***************************************************************************)
(* Properties.                                                             *)
(***************************************************************************)
PostScan == {"lock_best", "lock_total_rounds", "lock_total_attempts", "update"}

\* The salts of a whole call: initial_salt .. initial_salt + num_rounds*round_size - 1.
SaltRange(p) ==
    p.initial_salt_n .. (p.initial_salt_n + p.num_rounds * p.round_size - 1)

SearcherReturned == variant = "searcher" /\ main_pc = "returned"

\* C1: when Searcher::search returns (num_rounds >= 1, round_size >= 1, fresh
\* Searcher), the returned candidate's salt lies in the call's salt range, its
\* address is the derived address of that salt, and no salt of the range
\* derives a smaller address.
C1_SearchReturnsMinimum ==
    SearcherReturned =>
        /\ params.num_rounds >= 1 /\ params.round_size >= 1
        /\ Len(result) = 1
        /\ result[1].salt_n \in SaltRange(params)
        /\ result[1].address = Derive(params, result[1].salt_n)
        /\ \A s \in SaltRange(params) : result[1].address <= Derive(params, s)

\* Two workers, two rounds of two salts, and the minimum lies in the second round.
C1_Witness ==
    /\ SearcherReturned
    /\ num_threads = 2 /\ params.num_rounds = 2 /\ params.round_size = 2
    /\ result[1].salt_n >= params.initial_salt_n + params.round_size

\* C2: in both engines the first salt a round scans is
\* initial_salt + round_size * round, whatever has been folded before.
C2_RoundOffsetLaw ==
    \A w \in Workers :
        worker[w].pc # "idle" =>
            /\ worker[w].round_salt_n =
                   params.initial_salt_n + params.round_size * worker[w].round
            /\ worker[w].visited[1] = worker[w].round_salt_n

\* Round 0 is being scanned after round 1 has already been folded.
C2_Witness ==
    \E w \in Workers :
        /\ worker[w].pc # "idle"
        /\ worker[w].round = 0
        /\ params.num_rounds = 2 /\ params.round_size = 2
        /\ folds[1] = 1
        /\ best # << >>

\* C3: a finished scan of Searcher::search_create2_addresses with
\* round_size >= 1 has derived exactly the salts S, S+1, .., S+round_size-1,
\* each once and in this order; an unfinished one a prefix of them.
C3_ScanCoverage ==
    \A w \in Workers :
        (variant = "searcher" /\ worker[w].pc # "idle" /\ params.round_size >= 1) =>
            /\ \A k \in 1..Len(worker[w].visited) :
                   worker[w].visited[k] = worker[w].round_salt_n + k - 1
            /\ Len(worker[w].visited) <= params.round_size
            /\ worker[w].pc \in PostScan =>
                   Len(worker[w].visited) = params.round_size

\* A scan of two salts has finished.
C3_Witness ==
    \E w \in Workers :
        /\ variant = "searcher"
        /\ worker[w].pc \in PostScan
        /\ params.round_size = 2
        /\ worker[w].visited = << worker[w].round_salt_n, worker[w].round_salt_n + 1 >>

\* What round r of a call hands to the fold.
RoundResult(p, r) == SearchCreate2Addresses(RoundParams(p, r))

\* The fold of the rounds in the order given, starting from b.
RECURSIVE FoldRounds(_, _, _)
FoldRounds(p, order, b) ==
    IF order = << >> THEN b
    ELSE FoldRounds(p, Tail(order), FoldBest(b, RoundResult(p, Head(order))))

\* The rounds of a call in index order.
IndexOrder(p) == [k \in 1..p.num_rounds |-> k - 1]

\* The best of a call whose rounds fold in index order.
ReferenceBest(p) == FoldRounds(p, IndexOrder(p), << >>)

\* Two different rounds hand the fold the same, smallest, address.
TieAtMinimum(p) ==
    \E r1, r2 \in 0..(p.num_rounds - 1) :
        /\ r1 # r2
        /\ RoundResult(p, r1).address = ReferenceBest(p)[1].address
        /\ RoundResult(p, r2).address = ReferenceBest(p)[1].address

\* C4 as stated: whatever order the rounds were folded in, the call ends with
\* the candidate (address and salt) that the fold in index order ends with.
C4_FoldOrderIndependent ==
    SearcherReturned => result = ReferenceBest(params)

\* C4 amended: the final address is the same for every fold order, the final
\* candidate is one of the rounds' results, and the salt is the same too
\* unless two rounds' results share the smallest address.
C4_FoldOrderIndependentAddress ==
    SearcherReturned =>
        /\ result[1].address = ReferenceBest(params)[1].address
        /\ \E r \in 0..(params.num_rounds - 1) : result[1] = RoundResult(params, r)
        /\ ~TieAtMinimum(params) => result = ReferenceBest(params)

\* Two rounds were folded against index order and the later-indexed one won.
C4_Witness ==
    /\ SearcherReturned
    /\ params.num_rounds = 2
    /\ result[1] = RoundResult(params, 1)
    /\ result[1].address = ReferenceBest(params)[1].address
    /\ RoundResult(params, 0).address > RoundResult(params, 1).address

\* C5: when Searcher::search returns on a fresh Searcher,
\* total_attempts = num_rounds * round_size and total_rounds = num_rounds.
C5_CounterExactness ==
    SearcherReturned =>
        /\ total_attempts = params.num_rounds * params.round_size
        /\ total_rounds = params.num_rounds

\* Two workers have folded two rounds of two salts.
C5_Witness ==
    /\ SearcherReturned
    /\ num_threads = 2 /\ params.num_rounds = 2 /\ params.round_size = 2
    /\ total_attempts = 4

\* C6: no step lowers total_attempts or total_rounds; once best is set it
\* stays set, its address never grows and its leading-zero count never drops.
C6_Monotonic ==
    [][ /\ total_attempts' >= total_attempts
        /\ total_rounds' >= total_rounds
        /\ best # << >> =>
              /\ best' # << >>
              /\ best'[1].address <= best[1].address
              /\ count_leading_zeroes(best'[1].address)
                     >= count_leading_zeroes(best[1].address) ]_vars

\* The second fold of a call has replaced best by an address with a leading
\* zero digit.
C6_Witness ==
    /\ total_rounds = 2
    /\ last_notes.improvement
    /\ count_leading_zeroes(best[1].address) >= 1

\* C7 as stated: a Searcher scan with round_size = 0 derives no address and
\* does not panic.
C7_ZeroRoundSizeIsHarmless ==
    (variant = "searcher" /\ main_pc # "new" /\ params.round_size = 0) =>
        /\ hashes = 0
        /\ ~panicked

\* Workers that have taken the best mutex and not yet returned from the fold.
InFold == { w \in Workers :
              worker[w].pc \in {"lock_total_rounds", "lock_total_attempts", "update"} }

\* C8: in both engines at most one worker is between taking the best mutex
\* and the end of its fold, so no fold step of another worker falls between
\* the first and the last fold step of a worker.
C8_FoldAtomic ==
    /\ Cardinality(InFold) <= 1
    /\ \A w \in InFold : mutex_best = w

\* A worker is in the middle of its fold while another waits for the mutex.
C8_Witness ==
    \E w1, w2 \in Workers :
        /\ worker[w1].pc = "lock_total_attempts"
        /\ worker[w2].pc = "lock_best"

\* C9: no round is folded twice, and when Searcher::search returns every
\* round index of the call has been folded exactly once.
C9_ReturnAfterAllFolds ==
    variant = "searcher" =>
        /\ \A r \in DOMAIN folds : folds[r] <= 1
        /\ main_pc = "returned" =>
               /\ DOMAIN folds = 0..(params.num_rounds - 1)
               /\ \A r \in 0..(params.num_rounds - 1) : folds[r] = 1
               /\ AllIdle

\* A call of two rounds on two workers has returned.
C9_Witness ==
    /\ SearcherReturned
    /\ num_threads = 2 /\ params.num_rounds = 2
    /\ folds[0] = 1 /\ folds[1] = 1

\* C10: whenever the total_rounds mutex is unlocked the counters agree, and
\* the total_attempts mutex is only ever held by the holder of the
\* total_rounds mutex; so whoever holds both mutexes reads
\* total_attempts = round_size * total_rounds.
C10_NoTornCounters ==
    variant = "searcher" =>
        /\ mutex_total_rounds = 0 =>
               total_attempts = params.round_size * total_rounds
        /\ mutex_total_attempts # 0 => mutex_total_rounds = mutex_total_attempts

\* Both counter mutexes are free after one fold while another round is scanned.
C10_Witness ==
    /\ variant = "searcher"
    /\ mutex_total_rounds = 0 /\ mutex_total_attempts = 0
    /\ total_rounds = 1 /\ total_attempts = 2
    /\ \E w \in Workers : worker[w].pc = "scan"


\* C11: every Searcher::search call on one Searcher starts from an empty
\* SharedBestState (best is None, total_attempts = 0, total_rounds = 0), so
\* what a call returns and the counters it leaves depend on its own parameters
\* only: the counters count its own rounds and the returned salt is one of
\* its own salts.
C11_CallStartsEmpty ==
    /\ (variant = "searcher" /\ main_pc = "running" /\ hashes = 0) =>
           /\ best = << >>
           /\ total_attempts = 0
           /\ total_rounds = 0
    /\ SearcherReturned =>
           /\ total_rounds = params.num_rounds
           /\ total_attempts = params.num_rounds * params.round_size
           /\ result[1].salt_n \in SaltRange(params)

\* C12: in both engines the fold step of a worker sets best to its round's
\* candidate when best is None or the candidate's address is strictly smaller
\* than the address of best, and leaves best as it is otherwise (so on an equal
\* address the candidate folded earlier stays); best changes in no other way
\* once it is set.
C12_StrictReplacement ==
    [][ /\ \A w \in Workers :
             (worker[w].pc = "update" /\ worker'[w].pc = "idle") =>
                 best' = IF best = << >> \/
                             worker[w].round_best.address < best[1].address
                         THEN << worker[w].round_best >>
                         ELSE best
        /\ best' # best =>
             best = << >> \/ best'[1].address < best[1].address ]_vars

\* Two rounds found the same address, round 1 folded first, and the equal
\* candidate of round 0 did not replace it.
C12_Witness ==
    /\ SearcherReturned
    /\ params.num_rounds = 2
    /\ RoundResult(params, 0).address = RoundResult(params, 1).address
    /\ result = << RoundResult(params, 1) >>

\* C13: for round_size >= 1 the candidate a finished scan of
\* Searcher::search_create2_addresses hands to the fold has a salt of the
\* round's range, its address is the derived address of that salt, no salt of
\* the range derives a smaller address, and among the salts deriving that
\* address it is the lowest.
C13_RoundScannerResult ==
    \A w \in Workers :
        (variant = "searcher" /\ worker[w].pc \in PostScan /\ params.round_size >= 1) =>
            LET round_best == worker[w].round_best
                range == worker[w].round_salt_n ..
                             (worker[w].round_salt_n + params.round_size - 1)
            IN  /\ round_best.salt_n \in range
                /\ round_best.address = Derive(params, round_best.salt_n)
                /\ \A s \in range :
                       /\ round_best.address <= Derive(params, s)
                       /\ Derive(params, s) = round_best.address =>
                              round_best.salt_n <= s

\* A finished scan of two salts that derive the same address.
C13_Witness ==
    \E w \in Workers :
        /\ variant = "searcher"
        /\ worker[w].pc \in PostScan
        /\ params.round_size = 2
        /\ Derive(params, worker[w].round_salt_n) =
               Derive(params, worker[w].round_salt_n + 1)
        /\ worker[w].round_best.salt_n = worker[w].round_salt_n

\* C14: in both engines a worker that has not yet reached the fold (it is
\* between rounds, inside the scanning loop, or waiting for the best mutex)
\* owns none of the three mutexes, so the scans of different rounds are not
\* serialised by them.
C14_ScanHoldsNoMutex ==
    \A w \in Workers :
        worker[w].pc \in {"idle", "scan", "lock_best"} =>
            /\ mutex_best # w
            /\ mutex_total_rounds # w
            /\ mutex_total_attempts # w

\* One worker is inside the scanning loop while the other is inside its fold
\* and owns the three mutexes.
C14_Witness ==
    \E w1, w2 \in Workers :
        /\ worker[w1].pc = "scan"
        /\ worker[w2].pc = "update"
        /\ mutex_best = w2 /\ mutex_total_rounds = w2 /\ mutex_total_attempts = w2

\* The rounds folded in the current call, the folding one included.
FoldsDone(f) == Cardinality({ r \in DOMAIN f : f[r] >= 1 })

\* The rounds (= attempts) the earlier calls left in the counters.
RoundsBefore == IF calls > PriorCalls THEN PriorCalls ELSE 0

\* C15: a fold step of Searcher::search_round prints the improvement line
\* exactly when it replaces best; otherwise it prints the periodic status
\* line exactly when total_rounds, already incremented for this round, is a
\* multiple of 100; it never prints both.  It then prints one progress line
\* made from the already updated counters and the leading zeros of the
\* updated best plus one, except that with an elapsed time of 0 ms it prints
\* no progress line.
C15_Notifications ==
    [][ \A w \in Workers :
          (worker[w].pc = "update" /\ worker'[w].pc = "idle") =>
              LET rounds == RoundsBefore + FoldsDone(folds')
                  attempts == RoundsBefore + params.round_size * FoldsDone(folds')
              IN  /\ last_notes'.improvement = (best' # best)
                  /\ last_notes'.periodic =
                         (best' = best /\ rounds % LogPeriod = 0)
                  /\ ~(last_notes'.improvement /\ last_notes'.periodic)
                  /\ IF last_notes'.elapsed_ms = 0
                     THEN last_notes'.progress = << >>
                     ELSE last_notes'.progress =
                              << [round |-> rounds,
                                  attempt |-> attempts,
                                  elapsed_ms |-> last_notes'.elapsed_ms,
                                  zeros |-> count_leading_zeroes(best'[1].address) + 1] >>
      ]_vars

\* The fold that brings total_rounds to a multiple of 100 did not replace
\* best: it printed the periodic line and a progress line.
C15_Witness ==
    /\ variant = "searcher"
    /\ total_rounds = LogPeriod
    /\ last_notes.periodic
    /\ ~last_notes.improvement
    /\ last_notes.progress # << >>

\* The salts a worker has derived in its round so far.
VisitedSet(w) == { worker[w].visited[k] : k \in 1..Len(worker[w].visited) }

\* C16: a finished scan of main.rs search_create2_addresses with limit L >= 1
\* from salt S has derived exactly the salts S, S+1, .., S+L-1, each once, so
\* the scans of two different rounds have no salt in common.
C16_MainScanCoverage ==
    /\ \A w \in Workers :
           (variant = "main" /\ worker[w].pc \in PostScan /\ params.round_size >= 1) =>
               worker[w].visited =
                   [k \in 1..params.round_size |-> worker[w].round_salt_n + k - 1]
    /\ \A w1, w2 \in Workers :
           (variant = "main" /\ w1 # w2 /\ params.round_size >= 1
            /\ worker[w1].pc # "idle" /\ worker[w2].pc # "idle") =>
               VisitedSet(w1) \cap VisitedSet(w2) = {}

\* C17: when the search of main.rs has returned, total_attempts equals
\* num_rounds * round_size and total_rounds equals num_rounds; the scan main
\* runs before the search is counted in neither.
C17_MainCounterExactness ==
    (variant = "main" /\ main_pc = "returned") =>
        /\ total_rounds = params.num_rounds
        /\ total_attempts = params.num_rounds * params.round_size

\* floor(16^zeros / rate - elapsed_ms / 1000) for the rate num / den, from the
\* whole and the fractional parts of the two terms.
ClaimedSeconds(zeros, rate, elapsed_ms) ==
    LET a == (16 ^ zeros) * rate[2]
        frac == (a % rate[1]) * 1000 - (elapsed_ms % 1000) * rate[1]
    IN  (a \div rate[1]) - (elapsed_ms \div 1000) - (IF frac < 0 THEN 1 ELSE 0)

\* The printed d/h/m/s is the decomposition of n seconds.
IsDmsOf(dms, n) ==
    /\ dms.hours < 24 /\ dms.minutes < 60 /\ dms.seconds < 60
    /\ dms.days >= 0 /\ dms.hours >= 0 /\ dms.minutes >= 0 /\ dms.seconds >= 0
    /\ dms.days * 86400 + dms.hours * 3600 + dms.minutes * 60 + dms.seconds = n

\* rate = 1000, zeros = 2, elapsed_ms = 0 prints 0d0h0m0s.
EtaExample ==
    (eta.zeros = 2 /\ eta.rate = << 1000, 1 >> /\ eta.elapsed_ms = 0) =>
        eta.out[1].dms = [days |-> 0, hours |-> 0, minutes |-> 0, seconds |-> 0]

LockOrder ==
    \A w \in Workers :
        /\ mutex_total_rounds = w => mutex_best = w
        /\ mutex_total_attempts = w => mutex_total_rounds = w

\* Acquisitions go best, total_rounds, total_attempts, and all three are
\* released together at the end of the fold.
LockSteps ==
    /\ (mutex_total_rounds' # mutex_total_rounds /\ mutex_total_rounds' # 0) =>
           (mutex_best = mutex_total_rounds' /\ mutex_total_attempts = 0)
    /\ (mutex_total_attempts' # mutex_total_attempts /\ mutex_total_attempts' # 0) =>
           (mutex_best = mutex_total_attempts'
            /\ mutex_total_rounds = mutex_total_attempts')
    /\ (mutex_best' # mutex_best /\ mutex_best' # 0) =>
           (mutex_total_rounds = 0 /\ mutex_total_attempts = 0)
    /\ (mutex_best' # mutex_best /\ mutex_best' = 0) =>
           (mutex_total_rounds' = 0 /\ mutex_total_attempts' = 0)

\* A Searcher::search call with num_rounds >= 1 and round_size >= 1 is running.
SearchRunning ==
    /\ variant = "searcher"
    /\ main_pc = "running"
    /\ params.num_rounds >= 1
    /\ params.round_size >= 1

\* C19: every worker of both engines takes the mutexes in the order best,
\* total_rounds, total_attempts and releases them together at the end of its
\* fold; and under fair scheduling every Searcher::search call with
\* num_rounds >= 1 and round_size >= 1, with any number of workers,
\* eventually returns.
C19_DeadlockFreeTermination ==
    /\ [] LockOrder
    /\ [][LockSteps]_vars
    /\ SearchRunning ~> (main_pc = "returned")

\* A call of two rounds on two workers has folded both rounds and returned.
C19_Witness ==
    /\ SearcherReturned
    /\ num_threads = 2
    /\ params.num_rounds = 2 /\ params.round_size >= 1
    /\ total_rounds = 2

\* C20: a Searcher::search call on a fresh Searcher with num_rounds = 0
\* starts no round and derives no address, leaves best None and both
\* counters 0, cannot return a candidate and ends in the panic of unwrapping
\* the empty best; and whenever Searcher::search has returned a candidate,
\* best is not None and the candidate is best.
C20_ZeroRounds ==
    /\ (variant = "searcher" /\ main_pc # "new" /\ params.num_rounds = 0) =>
           /\ pending = {} /\ AllIdle
           /\ \A w \in Workers : worker[w] = IdleWorker
           /\ hashes = 0
           /\ best = << >>
           /\ total_attempts = 0 /\ total_rounds = 0
           /\ result = << >>
           /\ main_pc \in {"running", "panicked"}
           /\ main_pc = "running" => ENABLED SearchReturn
    /\ SearcherReturned => (best # << >> /\ result = best)

\* A call with num_rounds = 0 has ended in the panic, having derived nothing.
C20_Witness ==
    /\ variant = "searcher"
    /\ params.num_rounds = 0
    /\ calls = 1
    /\ main_pc = "panicked"
    /\ hashes = 0
    /\ best = << >>

====
